---- MODULE Spec2Model ----
(***************************************************************************)
(* Unified-Mail: the synchronization and ingestion pipeline.               *)
(*                                                                         *)
(* The model follows the backend sources: the Bull queue wiring            *)
(* (queues/index.ts), the sync worker and its periodic scheduler           *)
(* (workers/sync-worker, second half of send-worker.ts), SyncService       *)
(* (services/sync.service, unnamed/part_007), MessageService               *)
(* (services/message.service, appended to 001_initial_schema.sql), the     *)
(* PostgreSQL schema with its trigger, VaultService (unnamed/part_006)     *)
(* and the Gmail adapter.                                                  *)
(*                                                                         *)
(* Every `await` of a handler that reads or writes shared state is one     *)
(* atomic step of the handler run that executes it.  A sync worker slot    *)
(* runs one queue job's handler from its start to its return or throw, so  *)
(* a run is named after its queue job j and its position kept in wk[j].pc. *)
(*                                                                         *)
(* Identifiers produced by nanoid()/uuid_generate_v4() are only ever       *)
(* compared for equality, so a fresh row identifier is the number of rows  *)
(* its table has been given so far, plus one.                              *)
(***************************************************************************)
EXTENDS Integers, Sequences, FiniteSets, TLC

(***************************************************************************)
(* Bounds of the model.                                                    *)
(***************************************************************************)
NumWorkers == 2        \* sync worker slots (config.syncWorkerConcurrency)
MaxJobs == 2           \* queue jobs ever enqueued
NumMsgs == 2           \* messages the provider holds for an account
MaxFaults == 1         \* infrastructure faults (object store, Redis, database)
MaxStoreCalls == 3     \* direct storeMessage calls
MaxDeletes == 1        \* deleteMessage calls
MaxFlagUpdates == 1    \* updateMessageFlags calls
NumClients == 2        \* adapters alive at a time
MaxTokens == 3         \* access tokens a provider issues for an account
MaxCrashes == 1        \* crashes of the sync worker process
NumSchedAccounts == 2
NarrowConcurrency == 1
NumAttachMsgs == 3
MaxAccounts == 3
MaxClock == 6
NumIndexWorkers == 1   \* index worker slots (config.indexWorkerConcurrency)
MaxIndexFaults == 3    \* requests the search index refuses
MaxSubjectParts == 3   \* parts a subject line is put together from

(***************************************************************************)
(* Program constants.                                                      *)
(***************************************************************************)
Attempts == 3              \* defaultJobOptions.attempts
MaxMessagesDefault == 100  \* options?.maxMessages || 100
SyncIntervalMinutes == 5   \* config.syncIntervalMinutes, its default
NeedingSyncLimit == 100    \* LIMIT 100 of getAccountsNeedingSync
SubjectMaxLength == 255    \* .substring(0, 255)

Accounts == {"a1"}
Jobs == 1..MaxJobs
Msgs == 1..NumMsgs
Clients == 1..NumClients

Null == 0            \* no in-reply-to header
Never == -1          \* last_sync_at IS NULL
NoId == 0
NoAttempt == <<0, 0>>

(***************************************************************************)
(* The provider's mailbox.  Message m is the m-th message to arrive; its   *)
(* date is m on the logical time line, on which "now" is the number of     *)
(* messages that have arrived.  Even messages are replies to their         *)
(* predecessor under a subject of their own; odd messages share one        *)
(* subject; every third message carries an attachment.                     *)
(***************************************************************************)
InReplyTo(m) == IF m % 2 = 0 THEN m - 1 ELSE Null
SubjectOf(m) == IF m % 2 = 0 THEN m ELSE 1
NumAttachments(m) == IF m % 3 = 0 THEN 1 ELSE 0

VARIABLES
  acct,        \* accounts table: status, last_sync_at, last_sync_error
  arrived,     \* per account: number of messages that reached the provider
  malformed,   \* messages.get fails for these messages of the provider
  subj,        \* a subject line on its way through normalizeSubject
  flagsCall,   \* the arguments of the updateMessageFlags call made last
  adm,         \* SpecAccounts: account rows, vault paths, the API call under way
  sched,       \* SpecSched: accounts table, clock and last run of the scheduler
  syncJobs,    \* sync_jobs table
  queue,       \* Bull queue 'account-sync'
  messages,    \* messages table
  threads,     \* threads table
  attachments, \* attachments table
  blobs,       \* object store keys
  indexJobs,   \* Bull queue 'search-index': jobs per message row id
  wk,          \* handler runs
  faults,      \* infrastructure faults so far
  storeCalls,  \* direct storeMessage calls made
  deletes,     \* deleteMessage calls made
  flagUpdates, \* updateMessageFlags calls made
  vault,       \* secret store: the oauth tokens kept per account
  issued,      \* per account: access tokens the provider has issued
  expiredUpTo, \* per account: the access tokens up to this one have expired
  refreshes,   \* per account: the access tokens that were refreshed from
  crashes,     \* worker process crashes so far
  ix,          \* Bull queue 'search-index': the jobs a worker has taken
  docs,        \* search index: the documents, each under its _id
  indexFaults, \* requests the search index has refused so far
  returned,    \* SpecStore: what the storeMessage call that ended last gave
  cl           \* adapters (OAuth2 clients) built from the stored credentials

vars == <<acct, arrived, malformed, subj, sched, flagsCall, adm, syncJobs, queue, messages, threads, attachments,
          blobs, indexJobs, wk, faults, storeCalls, deletes, flagUpdates,
          vault, issued, expiredUpTo, refreshes, cl, returned, crashes, ix, docs,
          indexFaults>>

pipelineVars == <<acct, arrived, malformed, subj, sched, flagsCall, adm, syncJobs, queue, messages, threads, attachments,
                  blobs, indexJobs, wk, faults, storeCalls, deletes, flagUpdates,
                  returned, crashes, ix, docs, indexFaults>>
indexVars == <<ix, docs, indexFaults>>
inputVars == <<malformed, subj, sched, flagsCall, adm>>
credVars == <<vault, issued, expiredUpTo, refreshes, cl>>

dbVars == <<messages, threads, attachments, blobs>>
callVars == <<storeCalls, deletes, flagUpdates>>
apiVars == <<callVars, returned>>

\* the outcomes of a call to an infrastructure service: it succeeds, or fails
\* while the fault budget lasts
Outcomes == IF faults < MaxFaults THEN {TRUE, FALSE} ELSE {TRUE}
Faulted(ok) == faults' = IF ok THEN faults ELSE faults + 1

NoClient == [pc |-> "none", account |-> "a1", token |-> 0, tokens |-> 0]

NoSubject == [input |-> <<>>, value |-> <<>>, stage |-> "none"]

NoSched == [table |-> <<>>, now |-> 0, ranAt |-> 0, enqueued |-> <<>>]

NoFlagsCall == [id |-> NoId, isRead |-> "undefined", isStarred |-> "undefined"]

NoCall == [pc |-> "idle", id |-> NoId]
NoAccounts == [rows |-> {}, secrets |-> {}, created |-> 0, call |-> NoCall]

NoResult == [row |-> NoId, dup |-> FALSE, err |-> "none"]

IdleW == [pc |-> "idle", account |-> "a1", attempt |-> NoAttempt, since |-> 0,
          fetched |-> <<>>, synced |-> 0, err |-> "none", thr |-> NoId,
          row |-> NoId, dup |-> FALSE, connected |-> "none"]

InitStores ==
  /\ acct = [a \in Accounts |-> [status |-> "active", lastSyncAt |-> Never,
                                 lastSyncError |-> "null"]]
  /\ syncJobs = {}
  /\ queue = <<>>
  /\ messages = {}
  /\ threads = {}
  /\ attachments = {}
  /\ blobs = {}
  /\ indexJobs = <<>>
  /\ wk = [j \in Jobs |-> IdleW]
  /\ storeCalls = 0
  /\ deletes = 0
  /\ flagUpdates = 0
  /\ flagsCall = NoFlagsCall
  /\ adm = NoAccounts
  /\ returned = NoResult
  /\ crashes = 0
  /\ ix = <<>>
  /\ docs = {}
  /\ vault = [a \in Accounts |-> 1]
  /\ issued = [a \in Accounts |-> 1]
  /\ expiredUpTo = [a \in Accounts |-> 0]
  /\ refreshes = [a \in Accounts |-> <<>>]
  /\ cl = [c \in Clients |-> NoClient]

Init ==
  /\ InitStores
  /\ arrived = [a \in Accounts |-> 0]
  /\ malformed = {}
  /\ subj = NoSubject
  /\ sched = NoSched
  /\ indexFaults = 0
  /\ faults = 0

----------------------------------------------------------------------------
(***************************************************************************)
(* Environment: mail arrives at the provider.                              *)
(***************************************************************************)
Arrive(a) ==
  /\ arrived[a] < NumMsgs
  /\ arrived' = [arrived EXCEPT ![a] = @ + 1]
  /\ UNCHANGED <<credVars, crashes, inputVars, indexVars, acct, syncJobs, queue, dbVars, indexJobs, wk, faults, apiVars>>

----------------------------------------------------------------------------
(***************************************************************************)
(* Bull queue 'account-sync'.                                              *)
(***************************************************************************)
NewJob(a) == [account |-> a, state |-> "waiting", attemptsMade |-> 0,
              failedReason |-> "null"]

\* POST /accounts/:id/sync -> addSyncJob(accountId)
AddSyncJob(a) ==
  /\ Len(queue) < MaxJobs
  /\ queue' = Append(queue, NewJob(a))
  /\ UNCHANGED <<credVars, crashes, inputVars, indexVars, acct, arrived, syncJobs, dbVars, indexJobs, wk, faults, apiVars>>

\* AccountService.getAccountsNeedingSync; elapsed: the accounts whose
\* last_sync_at lies further back than the interval
AccountsNeedingSync(elapsed) ==
  {a \in Accounts : acct[a].status = "active"
                    /\ (acct[a].lastSyncAt = Never \/ a \in elapsed)}

\* schedulePeriodicSync: one job per selected account
SchedulePeriodicSync ==
  \E elapsed \in SUBSET Accounts :
    /\ AccountsNeedingSync(elapsed) # {}
    /\ \E a \in AccountsNeedingSync(elapsed) :
         /\ Len(queue) < MaxJobs
         /\ queue' = Append(queue, NewJob(a))
    /\ UNCHANGED <<credVars, crashes, inputVars, indexVars, acct, arrived, syncJobs, dbVars, indexJobs, wk, faults, apiVars>>

\* a queue that does not count the attempts of a job
FailAttempt_Uncounted(q, j, kind) ==
  [q EXCEPT ![j] = [@ EXCEPT !.failedReason = kind, !.state = "delayed"]]

\* Bull's handling of a handler that threw: count the attempt and keep its
\* error, then back off and retry while attempts remain, else fail the job.
FailAttempt(q, j, kind) ==
  [q EXCEPT ![j] = [@ EXCEPT
     !.attemptsMade = @ + 1,
     !.failedReason = kind,
     !.state = IF q[j].attemptsMade + 1 < Attempts THEN "delayed" ELSE "failed"]]

\* Bull's handling of a handler that returned
CompleteAttempt(q, j) == [q EXCEPT ![j].state = "completed"]

\* the backoff delay of a delayed job runs out
PromoteDelayed(j) ==
  /\ j \in DOMAIN queue
  /\ queue[j].state = "delayed"
  /\ queue' = [queue EXCEPT ![j].state = "waiting"]
  /\ UNCHANGED <<credVars, crashes, inputVars, indexVars, acct, arrived, syncJobs, dbVars, indexJobs, wk, faults, apiVars>>

ActiveJobs == {j \in DOMAIN queue : queue[j].state = "active"}

\* a worker that takes a waiting job whether or not a slot is free
Process_Unbounded(j, concurrency) ==
  /\ j \in DOMAIN queue
  /\ queue[j].state = "waiting"
  /\ queue' = [queue EXCEPT ![j].state = "active"]
  /\ wk' = [wk EXCEPT ![j] = [IdleW EXCEPT !.pc = "getAccount",
                                           !.account = queue[j].account,
                                           !.attempt = <<j, queue[j].attemptsMade + 1>>]]
  /\ UNCHANGED <<credVars, crashes, inputVars, indexVars, acct, arrived, syncJobs, dbVars, indexJobs, faults, apiVars>>

\* syncQueue.process(concurrency, handler): a free slot takes a waiting job
Process(j, concurrency) ==
  /\ j \in DOMAIN queue
  /\ queue[j].state = "waiting"
  /\ Cardinality(ActiveJobs) < concurrency
  /\ queue' = [queue EXCEPT ![j].state = "active"]
  /\ wk' = [wk EXCEPT ![j] = [IdleW EXCEPT !.pc = "getAccount",
                                           !.account = queue[j].account,
                                           !.attempt = <<j, queue[j].attemptsMade + 1>>]]
  /\ UNCHANGED <<credVars, crashes, inputVars, indexVars, acct, arrived, syncJobs, dbVars, indexJobs, faults, apiVars>>

TakeJob(j) == Process(j, NumWorkers)

----------------------------------------------------------------------------
(***************************************************************************)
(* SyncService.syncAccount, one action per await.                          *)
(***************************************************************************)
AcctOf(w) == wk[w].account
\* the identifier of the attempt a run belongs to
AttemptOf(w) == wk[w].attempt
\* nanoid(): identifiers no row of the table has had
NewMessageId == Cardinality(messages) + deletes + 1
NewThreadId == Cardinality(threads) + 1

\* SyncService.getLastSyncDate: the last sync time, else 30 days back, which
\* is before every message of the model
GetLastSyncDate(a) == IF acct[a].lastSyncAt # Never THEN acct[a].lastSyncAt ELSE 0

UpdateAccountStatus(ac, a, status, error) ==
  [ac EXCEPT ![a].status = status, ![a].lastSyncError = error]

\* a syncAccount that throws on an account that is not active, and so ends
\* in its outer catch
GetAccount_Throws(w) ==
  /\ wk[w].pc = "getAccount"
  /\ wk' = IF acct[AcctOf(w)].status # "active"
             THEN [wk EXCEPT ![w].pc = "setAuthFailed", ![w].err = "notactive"]
             ELSE [wk EXCEPT ![w].pc = "setSyncing",
                             ![w].since = GetLastSyncDate(AcctOf(w))]
  /\ UNCHANGED <<credVars, crashes, inputVars, indexVars, acct, arrived, syncJobs, queue, dbVars, indexJobs, faults, apiVars>>

\* lines 24-32: read the account; not active -> { success: false }, on which
\* the worker handler throws
GetAccount(w) ==
  /\ wk[w].pc = "getAccount"
  /\ IF acct[AcctOf(w)].status # "active"
       THEN /\ queue' = FailAttempt(queue, w, "notactive")
            /\ wk' = [wk EXCEPT ![w] = IdleW]
       ELSE /\ wk' = [wk EXCEPT ![w].pc = "setSyncing",
                                ![w].since = GetLastSyncDate(AcctOf(w))]
            /\ UNCHANGED queue
  /\ UNCHANGED <<credVars, crashes, inputVars, indexVars, acct, arrived, syncJobs, dbVars, indexJobs, faults, apiVars>>

\* line 35
SetSyncing(w) ==
  /\ wk[w].pc = "setSyncing"
  /\ acct' = UpdateAccountStatus(acct, AcctOf(w), "syncing", "null")
  /\ wk' = [wk EXCEPT ![w].pc = "testConnection"]
  /\ UNCHANGED <<credVars, crashes, inputVars, indexVars, arrived, syncJobs, queue, dbVars, indexJobs, faults, apiVars>>

\* lines 38-50: credentials are read, the adapter is built and the connection
\* is tested; GmailAdapter.testConnection turns every error into false
TestConnection_Unchecked(w) ==
  /\ wk[w].pc = "testConnection"
  /\ \E connected \in BOOLEAN :
       wk' = [wk EXCEPT ![w].pc = "createSyncJob",
                        ![w].connected = IF connected THEN "true" ELSE "false"]
  /\ UNCHANGED <<credVars, crashes, inputVars, indexVars, acct, arrived, syncJobs, queue, dbVars, indexJobs, faults, apiVars>>

TestConnection(w) ==
  /\ wk[w].pc = "testConnection"
  /\ \E connected \in BOOLEAN :
       wk' = [wk EXCEPT ![w].pc = IF connected THEN "createSyncJob" ELSE "setAuthFailed",
                        ![w].err = IF connected THEN "none" ELSE "connect",
                        ![w].connected = IF connected THEN "true" ELSE "false"]
  /\ UNCHANGED <<credVars, crashes, inputVars, indexVars, acct, arrived, syncJobs, queue, dbVars, indexJobs, faults, apiVars>>

\* line 63, createSyncJob
CreateSyncJob(w) ==
  /\ wk[w].pc = "createSyncJob"
  /\ syncJobs' = syncJobs \cup {[id |-> AttemptOf(w), account |-> AcctOf(w),
                                 status |-> "running", synced |-> 0, error |-> "null"]}
  /\ wk' = [wk EXCEPT ![w].pc = "fetchMessages"]
  /\ UNCHANGED <<credVars, crashes, inputVars, indexVars, acct, arrived, queue, dbVars, indexJobs, faults, apiVars>>

\* descending list of the numbers in lo+1 .. hi
RECURSIVE NewestFirst(_, _)
NewestFirst(lo, hi) == IF hi <= lo THEN <<>> ELSE <<hi>> \o NewestFirst(lo, hi - 1)

Min(x, y) == IF x < y THEN x ELSE y

\* messages.list of GmailAdapter.fetchMessages: the messages after sinceDate,
\* newest first, at most maxMessages of them
ListMessages(a, since) ==
  SubSeq(NewestFirst(since, arrived[a]), 1,
         Min(MaxMessagesDefault, Len(NewestFirst(since, arrived[a]))))

\* a fetchFullMessage that hands on the record it could not read
FetchFullMessage_KeepsBad(m) == TRUE

\* GmailAdapter.fetchFullMessage: null when messages.get or the parser fails
FetchFullMessage(m) == m \notin malformed

\* GmailAdapter.fetchMessages: the listed messages fetched in full, the nulls
\* filtered out
FetchResult(a, since) == SelectSeq(ListMessages(a, since), FetchFullMessage)

\* position after the store loop's current iteration
AfterMessage(rest) == IF rest = <<>> THEN "completeSyncJob" ELSE "storeMessage"

\* lines 67-70: the provider answers, or fails with a transient or a terminal
\* error, which the adapter rethrows
FetchMessages(w) ==
  /\ wk[w].pc = "fetchMessages"
  /\ \E outcome \in {"ok", "transient", "terminal"} :
       IF outcome = "ok"
         THEN wk' = [wk EXCEPT ![w].fetched = FetchResult(AcctOf(w), wk[w].since),
                               ![w].pc = AfterMessage(FetchResult(AcctOf(w), wk[w].since))]
         ELSE wk' = [wk EXCEPT ![w].pc = "failSyncJob", ![w].err = outcome]
  /\ UNCHANGED <<credVars, crashes, inputVars, indexVars, acct, arrived, syncJobs, queue, dbVars, indexJobs, faults, apiVars>>

----------------------------------------------------------------------------
(***************************************************************************)
(* MessageService.storeMessage: the database and object store operations   *)
(* it is made of.                                                          *)
(***************************************************************************)
\* a messages table without the UNIQUE constraint
UniqueViolation_NoConstraint(a, m) == FALSE

\* UNIQUE(account_id, message_id) of table messages
UniqueViolation(a, m) == \E r \in messages : r.account = a /\ r.messageId = m

\* a lookup that never finds the row
GetMessageByAccountAndMessageId_Miss(a, m) == {}

\* MessageService.getMessageByAccountAndMessageId
GetMessageByAccountAndMessageId(a, m) ==
  {r \in messages : r.account = a /\ r.messageId = m}

\* StorageService.generateMessageKey / generateAttachmentKey
MessageKey(a, m) == <<"messages", a, m, NoId>>
AttachmentKey(a, m, attachmentId) == <<"attachments", a, m, attachmentId>>

\* lines 411-430: the keys put in the object store for a message
PutBlobs(a, m) ==
  IF NumAttachments(m) = 0
    THEN {MessageKey(a, m)}
    ELSE {MessageKey(a, m), AttachmentKey(a, m, NewMessageId)}

\* lines 432-437: attachments.message_id REFERENCES messages(id), so the
\* INSERT INTO attachments fails unless the message row exists
AttachmentForeignKeyHolds(messageUuid) == \E r \in messages : r.id = messageUuid

\* a findOrCreateThread without the In-Reply-To lookup
ReplyRows_NoLookup(m) == {}

\* findOrCreateThread lines 735-744: SELECT thread_id FROM messages WHERE
\* message_id = $1 LIMIT 1
ReplyRows(m) == IF InReplyTo(m) = Null THEN {}
                ELSE {r \in messages : r.messageId = InReplyTo(m)}

\* findOrCreateThread lines 746-755: SELECT id FROM threads WHERE
\* subject_normalized = $1 LIMIT 1
SubjectRows(m) == {t \in threads : t.subject = SubjectOf(m)}

\* findOrCreateThread lines 757-769; message_count takes its DEFAULT 1
NewThread(m) == [id |-> NewThreadId, subject |-> SubjectOf(m), messageCount |-> 1]

\* trigger update_thread_after_message (AFTER INSERT OR UPDATE ON messages):
\* message_count of the row's thread is recounted
UpdateThreadParticipants(ths, msgs, threadId) ==
  {IF t.id = threadId
     THEN [t EXCEPT !.messageCount = Cardinality({r \in msgs : r.threadId = threadId})]
     ELSE t : t \in ths}

\* lines 451-490: the row inserted for message m of account a in thread thr
NewRow(a, m, thr) == [id |-> NewMessageId, account |-> a, messageId |-> m,
                      threadId |-> thr, isRead |-> FALSE, isStarred |-> FALSE]

----------------------------------------------------------------------------
(***************************************************************************)
(* The store loop of syncAccount, lines 78-94: storeMessage for the        *)
(* message at the head of wk[w].fetched, then addIndexJob.  A throw of     *)
(* either is caught by the loop, which goes on with the next message.      *)
(* Here a call of storeMessage is one step; its interleavings with other   *)
(* calls are the subject of SpecStore below.                               *)
(***************************************************************************)
CurMsg(w) == Head(wk[w].fetched)

\* the catch of the store loop: log and continue with the next message
SkipMessage(w) ==
  [wk EXCEPT ![w].fetched = Tail(@),
             ![w].pc = AfterMessage(Tail(wk[w].fetched)),
             ![w].thr = NoId, ![w].row = NoId, ![w].dup = FALSE]

\* findOrCreateThread: the thread ids it can return, NewThreadId for a thread
\* it creates
FindOrCreateThread(m) ==
  IF ReplyRows(m) # {} THEN {r.threadId : r \in ReplyRows(m)}
  ELSE IF SubjectRows(m) # {} THEN {t.id : t \in SubjectRows(m)}
  ELSE {NewThreadId}

\* line 80: messageService.storeMessage(accountId, message)
StoreMessage(w) ==
  /\ wk[w].pc = "storeMessage"
  /\ LET a == AcctOf(w)
         m == CurMsg(w)
         existing == GetMessageByAccountAndMessageId(a, m) IN
     IF existing # {}
       THEN /\ \E r \in existing :
                 wk' = [wk EXCEPT ![w].pc = "addIndexJob", ![w].row = r.id, ![w].dup = TRUE]
            /\ UNCHANGED <<dbVars, faults>>
       ELSE \E s3ok \in Outcomes :
            /\ Faulted(s3ok)
            /\ IF ~s3ok
                 THEN /\ wk' = SkipMessage(w)
                      /\ UNCHANGED dbVars
               ELSE IF NumAttachments(m) > 0 /\ ~AttachmentForeignKeyHolds(NewMessageId)
                 THEN /\ blobs' = blobs \cup PutBlobs(a, m)
                      /\ wk' = SkipMessage(w)
                      /\ UNCHANGED <<messages, threads, attachments>>
               ELSE \E thr \in FindOrCreateThread(m) :
                      LET ths == IF thr = NewThreadId THEN threads \cup {NewThread(m)}
                                                      ELSE threads
                          row == NewRow(a, m, thr) IN
                      /\ blobs' = blobs \cup PutBlobs(a, m)
                      /\ attachments' = IF NumAttachments(m) > 0
                                          THEN attachments \cup {[id |-> NewMessageId,
                                                                 message |-> NewMessageId]}
                                          ELSE attachments
                      /\ messages' = messages \cup {row}
                      /\ threads' = UpdateThreadParticipants(ths, messages \cup {row}, thr)
                      /\ wk' = [wk EXCEPT ![w].pc = "addIndexJob", ![w].row = row.id]
  /\ UNCHANGED <<credVars, crashes, inputVars, indexVars, acct, arrived, syncJobs, queue, indexJobs, apiVars>>

\* indexQueue.add({ messageId }): one more job for that message
Enqueue(q, id) ==
  [x \in DOMAIN q \cup {id} |-> IF x = id THEN (IF id \in DOMAIN q THEN q[id] + 1 ELSE 1)
                                         ELSE q[x]]

\* lines 83-85: addIndexJob(storedMessage.id), then messagesSynced++; a failing
\* enqueue is caught like a failing store
AddIndexJob(w) ==
  /\ wk[w].pc = "addIndexJob"
  /\ \E ok \in Outcomes :
       /\ Faulted(ok)
       /\ IF ok
            THEN /\ indexJobs' = Enqueue(indexJobs, wk[w].row)
                 /\ wk' = [SkipMessage(w) EXCEPT ![w].synced = @ + 1]
            ELSE /\ wk' = SkipMessage(w)
                 /\ UNCHANGED indexJobs
  /\ UNCHANGED <<credVars, crashes, inputVars, indexVars, acct, arrived, syncJobs, queue, dbVars, apiVars>>

----------------------------------------------------------------------------
(***************************************************************************)
(* syncAccount after the store loop.                                       *)
(***************************************************************************)
\* line 97, completeSyncJob: UPDATE sync_jobs SET status = 'completed' WHERE id
CompleteSyncJob(w) ==
  /\ wk[w].pc = "completeSyncJob"
  /\ syncJobs' = {IF r.id = AttemptOf(w)
                    THEN [r EXCEPT !.status = "completed", !.synced = wk[w].synced]
                    ELSE r : r \in syncJobs}
  /\ wk' = [wk EXCEPT ![w].pc = "updateSyncCursor"]
  /\ UNCHANGED <<credVars, crashes, inputVars, indexVars, acct, arrived, queue, dbVars, indexJobs, faults, apiVars>>

\* line 100, AccountService.updateSyncCursor with the current time
UpdateSyncCursor(w) ==
  /\ wk[w].pc = "updateSyncCursor"
  /\ \E ok \in Outcomes :
       /\ Faulted(ok)
       /\ IF ok
            THEN /\ acct' = [acct EXCEPT ![AcctOf(w)].lastSyncAt = arrived[AcctOf(w)]]
                 /\ wk' = [wk EXCEPT ![w].pc = "setActive"]
            ELSE /\ wk' = [wk EXCEPT ![w].pc = "failSyncJob", ![w].err = "db"]
                 /\ UNCHANGED acct
  /\ UNCHANGED <<credVars, crashes, inputVars, indexVars, arrived, syncJobs, queue, dbVars, indexJobs, apiVars>>

\* lines 101-111: status back to 'active', then { success: true }, on which
\* the worker handler returns
SetActive(w) ==
  /\ wk[w].pc = "setActive"
  /\ \E ok \in Outcomes :
       /\ Faulted(ok)
       /\ IF ok
            THEN /\ acct' = UpdateAccountStatus(acct, AcctOf(w), "active", "null")
                 /\ queue' = CompleteAttempt(queue, w)
                 /\ wk' = [wk EXCEPT ![w] = IdleW]
            ELSE /\ wk' = [wk EXCEPT ![w].pc = "failSyncJob", ![w].err = "db"]
                 /\ UNCHANGED <<acct, queue>>
  /\ UNCHANGED <<credVars, crashes, inputVars, indexVars, arrived, syncJobs, dbVars, indexJobs, apiVars>>

\* lines 112-115, failSyncJob: UPDATE sync_jobs SET status = 'failed' WHERE id
FailSyncJob(w) ==
  /\ wk[w].pc = "failSyncJob"
  /\ syncJobs' = {IF r.id = AttemptOf(w)
                    THEN [r EXCEPT !.status = "failed", !.error = wk[w].err]
                    ELSE r : r \in syncJobs}
  /\ wk' = [wk EXCEPT ![w].pc = "setAuthFailed"]
  /\ UNCHANGED <<credVars, crashes, inputVars, indexVars, acct, arrived, queue, dbVars, indexJobs, faults, apiVars>>

\* lines 116-129: every failure sets the account to 'auth_failed'; the
\* { success: false } makes the worker handler throw
SetAuthFailed(w) ==
  /\ wk[w].pc = "setAuthFailed"
  /\ acct' = UpdateAccountStatus(acct, AcctOf(w), "auth_failed", wk[w].err)
  /\ queue' = FailAttempt(queue, w, wk[w].err)
  /\ wk' = [wk EXCEPT ![w] = IdleW]
  /\ UNCHANGED <<credVars, crashes, inputVars, indexVars, arrived, syncJobs, dbVars, indexJobs, faults, apiVars>>

----------------------------------------------------------------------------
(***************************************************************************)
(* MessageService operations reached from the API.                         *)
(***************************************************************************)
FlagValues == {"undefined", "true", "false"}

SetFlag(old, v) == IF v = "undefined" THEN old ELSE (v = "true")

\* WHERE id = $n
RowAddressed_Any(r, id) == TRUE

RowAddressed(r, id) == r.id = id

\* MessageService.updateMessageFlags; the UPDATE fires the thread trigger
FlagsUpdated(id, isRead, isStarred) ==
  /\ flagUpdates < MaxFlagUpdates
  /\ flagUpdates' = flagUpdates + 1
  /\ IF isRead = "undefined" /\ isStarred = "undefined"
       THEN UNCHANGED <<messages, threads>>
       ELSE LET new == {IF RowAddressed(r, id)
                          THEN [r EXCEPT !.isRead = SetFlag(@, isRead),
                                         !.isStarred = SetFlag(@, isStarred)]
                          ELSE r : r \in messages} IN
            /\ messages' = new
            /\ threads' = IF \E r \in messages : r.id = id
                            THEN UpdateThreadParticipants(threads, new,
                                   (CHOOSE r \in messages : r.id = id).threadId)
                            ELSE threads

UpdateMessageFlags(id, isRead, isStarred) ==
  /\ FlagsUpdated(id, isRead, isStarred)
  /\ UNCHANGED <<credVars, crashes, inputVars, indexVars, acct, arrived, syncJobs, queue, attachments, blobs, indexJobs,
                 wk, faults, storeCalls, deletes, returned>>

\* a call of updateMessageFlags whose arguments are kept
UpdateMessageFlagsCall(id, isRead, isStarred) ==
  /\ FlagsUpdated(id, isRead, isStarred)
  /\ flagsCall' = [id |-> id, isRead |-> isRead, isStarred |-> isStarred]
  /\ UNCHANGED <<credVars, crashes, malformed, subj, sched, adm, indexVars, acct, arrived, syncJobs,
                 queue, attachments, blobs, indexJobs, wk, faults, storeCalls, deletes,
                 returned>>

\* MessageService.deleteMessage: the raw mail is deleted from the object
\* store, then the row (ON DELETE CASCADE takes its attachments); no trigger
\* fires on DELETE
DeleteMessage(id) ==
  /\ deletes < MaxDeletes
  /\ \E r \in messages :
       /\ r.id = id
       /\ blobs' = blobs \ {MessageKey(r.account, r.messageId)}
       /\ messages' = messages \ {r}
       /\ attachments' = {x \in attachments : x.message # id}
  /\ deletes' = deletes + 1
  /\ UNCHANGED <<credVars, crashes, inputVars, indexVars, acct, arrived, syncJobs, queue, threads, indexJobs, wk, faults,
                 storeCalls, flagUpdates, returned>>

----------------------------------------------------------------------------
(***************************************************************************)
(* MessageService.storeMessage under concurrent callers (store loops of    *)
(* sync runs working on overlapping fetch windows): one action per await.  *)
(* A caller hands over one message in the first free slot; when the call   *)
(* ends, its outcome is left in returned: row and dup when it returned,    *)
(* err when it threw.  dup records that the key was stored when the call   *)
(* looked for it.                                                          *)
(***************************************************************************)
StoreMessageCall(c, a, m) ==
  /\ wk[c].pc = "idle"
  /\ \A d \in Jobs : d < c => wk[d].pc # "idle"
  /\ c \notin DOMAIN queue
  /\ storeCalls < MaxStoreCalls
  /\ storeCalls' = storeCalls + 1
  /\ wk' = [wk EXCEPT ![c] = [IdleW EXCEPT !.pc = "storeDedup", !.account = a,
                                           !.fetched = <<m>>]]
  /\ UNCHANGED <<credVars, crashes, inputVars, indexVars, acct, arrived, syncJobs, queue, dbVars, indexJobs, faults,
                 deletes, flagUpdates, returned>>

\* the call ends: it throws error
StoreThrows(c, error) ==
  /\ wk' = [wk EXCEPT ![c] = IdleW]
  /\ returned' = [NoResult EXCEPT !.err = error]

\* the call ends: it returns the row id; dup: the key was stored at the check
StoreReturns(c, id, dup) ==
  /\ wk' = [wk EXCEPT ![c] = IdleW]
  /\ returned' = [NoResult EXCEPT !.row = id, !.dup = dup]

\* the call goes on
StoreGoesOn(w) ==
  /\ wk' = w
  /\ returned' = returned

\* where findOrCreateThread starts
ThreadLookup(m) == IF InReplyTo(m) # Null THEN "findThreadByReply" ELSE "findThreadBySubject"

\* lines 401-409: deduplication; the existing row is returned
StoreDedupCheck(c) ==
  /\ wk[c].pc = "storeDedup"
  /\ LET existing == GetMessageByAccountAndMessageId(AcctOf(c), CurMsg(c)) IN
       IF existing # {}
         THEN \E r \in existing : StoreReturns(c, r.id, TRUE)
         ELSE StoreGoesOn([wk EXCEPT ![c].pc = "storeBlobs",
                                     ![c].dup = UniqueViolation(AcctOf(c), CurMsg(c))])
  /\ UNCHANGED <<credVars, crashes, inputVars, indexVars, acct, arrived, syncJobs, queue, dbVars, indexJobs, faults, callVars>>

\* lines 411-440: the raw mail is put in the object store, then for every
\* attachment its content is put and its row inserted
StoreBlobs(c) ==
  /\ wk[c].pc = "storeBlobs"
  /\ \E s3ok \in Outcomes :
       /\ Faulted(s3ok)
       /\ IF ~s3ok
            THEN /\ StoreThrows(c, "storage")
                 /\ UNCHANGED <<blobs, attachments>>
            ELSE /\ blobs' = blobs \cup PutBlobs(AcctOf(c), CurMsg(c))
                 /\ IF NumAttachments(CurMsg(c)) = 0
                      THEN /\ StoreGoesOn([wk EXCEPT ![c].pc = ThreadLookup(CurMsg(c))])
                           /\ UNCHANGED attachments
                    ELSE IF AttachmentForeignKeyHolds(NewMessageId)
                      THEN /\ attachments' = attachments \cup
                                 {[id |-> NewMessageId, message |-> NewMessageId]}
                           /\ StoreGoesOn([wk EXCEPT ![c].pc = ThreadLookup(CurMsg(c))])
                      ELSE /\ StoreThrows(c, "foreign key")
                           /\ UNCHANGED attachments
  /\ UNCHANGED <<credVars, crashes, inputVars, indexVars, acct, arrived, syncJobs, queue, messages, threads, indexJobs, callVars>>

\* findOrCreateThread lines 735-744
FindThreadByReply(c) ==
  /\ wk[c].pc = "findThreadByReply"
  /\ IF ReplyRows(CurMsg(c)) # {}
       THEN \E r \in ReplyRows(CurMsg(c)) :
              StoreGoesOn([wk EXCEPT ![c].pc = "insertMessage", ![c].thr = r.threadId])
       ELSE StoreGoesOn([wk EXCEPT ![c].pc = "findThreadBySubject"])
  /\ UNCHANGED <<credVars, crashes, inputVars, indexVars, acct, arrived, syncJobs, queue, dbVars, indexJobs, faults, callVars>>

\* findOrCreateThread lines 746-755
FindThreadBySubject(c) ==
  /\ wk[c].pc = "findThreadBySubject"
  /\ IF SubjectRows(CurMsg(c)) # {}
       THEN \E t \in SubjectRows(CurMsg(c)) :
              StoreGoesOn([wk EXCEPT ![c].pc = "insertMessage", ![c].thr = t.id])
       ELSE StoreGoesOn([wk EXCEPT ![c].pc = "createThread"])
  /\ UNCHANGED <<credVars, crashes, inputVars, indexVars, acct, arrived, syncJobs, queue, dbVars, indexJobs, faults, callVars>>

\* findOrCreateThread lines 757-769
CreateThread(c) ==
  /\ wk[c].pc = "createThread"
  /\ threads' = threads \cup {NewThread(CurMsg(c))}
  /\ StoreGoesOn([wk EXCEPT ![c].pc = "insertMessage", ![c].thr = NewThreadId])
  /\ UNCHANGED <<credVars, crashes, inputVars, indexVars, acct, arrived, syncJobs, queue, messages, attachments, blobs,
                 indexJobs, faults, callVars>>

\* lines 451-490: INSERT INTO messages, with its trigger
InsertMessage(c) ==
  /\ wk[c].pc = "insertMessage"
  /\ IF UniqueViolation(AcctOf(c), CurMsg(c))
       THEN /\ StoreThrows(c, "unique")
            /\ UNCHANGED <<messages, threads>>
       ELSE LET row == NewRow(AcctOf(c), CurMsg(c), wk[c].thr) IN
            /\ messages' = messages \cup {row}
            /\ threads' = UpdateThreadParticipants(threads, messages \cup {row}, wk[c].thr)
            /\ StoreReturns(c, row.id, wk[c].dup)
  /\ UNCHANGED <<credVars, crashes, inputVars, indexVars, acct, arrived, syncJobs, queue, attachments, blobs, indexJobs,
                 faults, callVars>>

StoreStep(c) ==
  \/ StoreDedupCheck(c)
  \/ StoreBlobs(c)
  \/ FindThreadByReply(c)
  \/ FindThreadBySubject(c)
  \/ CreateThread(c)
  \/ InsertMessage(c)

(***************************************************************************)
(* Spec: the sync pipeline - scheduler, queue, sync workers.               *)
(***************************************************************************)
Next ==
  \/ \E a \in Accounts : Arrive(a)
  \/ \E a \in Accounts : AddSyncJob(a)
  \/ SchedulePeriodicSync
  \/ \E j \in Jobs : PromoteDelayed(j)
  \/ \E j \in Jobs : TakeJob(j)
  \/ \E w \in Jobs : GetAccount(w)
  \/ \E w \in Jobs : SetSyncing(w)
  \/ \E w \in Jobs : TestConnection(w)
  \/ \E w \in Jobs : CreateSyncJob(w)
  \/ \E w \in Jobs : FetchMessages(w)
  \/ \E w \in Jobs : StoreMessage(w)
  \/ \E w \in Jobs : AddIndexJob(w)
  \/ \E w \in Jobs : CompleteSyncJob(w)
  \/ \E w \in Jobs : UpdateSyncCursor(w)
  \/ \E w \in Jobs : SetActive(w)
  \/ \E w \in Jobs : FailSyncJob(w)
  \/ \E w \in Jobs : SetAuthFailed(w)

Spec == Init /\ [][Next]_vars

(***************************************************************************)
(* The pipeline under fair scheduling, with the services it stands on      *)
(* available: the mailbox holds its messages and neither the database, the *)
(* object store nor Redis fails, while the provider may fail any attempt.  *)
(* The worker's event loop runs every continuation that is ready, Bull     *)
(* promotes a delayed job when its backoff is over and hands a waiting job *)
(* to a free slot.                                                         *)
(***************************************************************************)
InitFair ==
  /\ InitStores
  /\ arrived = [a \in Accounts |-> NumMsgs]
  /\ faults = MaxFaults
  /\ malformed = {}
  /\ subj = NoSubject
  /\ sched = NoSched
  /\ indexFaults = 0

RunStep(w) ==
  \/ GetAccount(w)
  \/ SetSyncing(w)
  \/ TestConnection(w)
  \/ CreateSyncJob(w)
  \/ FetchMessages(w)
  \/ StoreMessage(w)
  \/ AddIndexJob(w)
  \/ CompleteSyncJob(w)
  \/ UpdateSyncCursor(w)
  \/ SetActive(w)
  \/ FailSyncJob(w)
  \/ SetAuthFailed(w)

Progress == \E j \in Jobs : PromoteDelayed(j) \/ TakeJob(j) \/ RunStep(j)

NextFair ==
  \/ \E a \in Accounts : AddSyncJob(a)
  \/ SchedulePeriodicSync
  \/ Progress

FairSpec == InitFair /\ [][NextFair]_vars /\ WF_vars(Progress)

(***************************************************************************)
(* SpecPeriodic: the queue fed by the periodic scheduler alone; no job is  *)
(* added through the API.                                                  *)
(***************************************************************************)
NextPeriodic ==
  \/ SchedulePeriodicSync
  \/ Progress

SpecPeriodic == InitFair /\ [][NextPeriodic]_vars

(***************************************************************************)
(* SpecNarrow: a sync worker configured with fewer slots than there are    *)
(* jobs in the queue (SYNC_WORKER_CONCURRENCY = NarrowConcurrency).        *)
(***************************************************************************)
TakeJobNarrow(j) == Process(j, NarrowConcurrency)

NextNarrow ==
  \/ \E a \in Accounts : AddSyncJob(a)
  \/ \E j \in Jobs : PromoteDelayed(j)
  \/ \E j \in Jobs : TakeJobNarrow(j)
  \/ \E j \in Jobs : RunStep(j)

SpecNarrow == InitFair /\ [][NextNarrow]_vars

(***************************************************************************)
(* The index worker (index-worker.ts).  indexJobs counts the jobs added    *)
(* per message row id; job <<id, n>> is the n-th of them, taken in that    *)
(* order.  ix holds the jobs a worker has taken, with Bull's bookkeeping   *)
(* and the handler's position.  The handler reads the message row and its  *)
(* raw mail, then writes the document under the row id.                    *)
(***************************************************************************)
IndexJobKeys ==
  UNION {{<<id, n>> : n \in 1..indexJobs[id]} : id \in DOMAIN indexJobs}

ActiveIndexJobs == {k \in DOMAIN ix : ix[k].state = "active"}

NoDoc == [isRead |-> FALSE, isStarred |-> FALSE]

\* indexQueue.process(concurrency, handler): a free slot takes a waiting job
TakeIndexJob(k) ==
  /\ k \in IndexJobKeys
  /\ Cardinality(ActiveIndexJobs) < NumIndexWorkers
  /\ IF k \in DOMAIN ix
       THEN /\ ix[k].state = "waiting"
            /\ ix' = [ix EXCEPT ![k].state = "active", ![k].pc = "getMessageById"]
       ELSE /\ k[2] = 1 \/ <<k[1], k[2] - 1>> \in DOMAIN ix
            /\ ix' = [x \in DOMAIN ix \cup {k} |->
                        IF x = k THEN [state |-> "active", attemptsMade |-> 0,
                                       failedReason |-> "null", pc |-> "getMessageById",
                                       doc |-> NoDoc]
                                 ELSE ix[x]]
  /\ UNCHANGED <<credVars, crashes, inputVars, docs, indexFaults, acct, arrived, syncJobs, queue, dbVars, indexJobs,
                 wk, faults, apiVars>>

\* a handler that takes the failure of an index job out on the account
IndexJobThrows_Escalates(k, error) ==
  /\ indexFaults' = IF error = "search" THEN indexFaults + 1 ELSE indexFaults
  /\ ix' = [FailAttempt(ix, k, error) EXCEPT ![k].pc = "none", ![k].doc = NoDoc]
  /\ acct' = [a \in Accounts |-> [acct[a] EXCEPT !.status = "auth_failed"]]
  /\ UNCHANGED <<credVars, crashes, inputVars, docs, arrived, syncJobs, queue, dbVars, indexJobs,
                 wk, faults, apiVars>>

\* lines 61-69: the handler logs and rethrows; Bull counts the attempt and
\* retries the job or fails it
IndexJobThrows(k, error) ==
  /\ indexFaults' = IF error = "search" THEN indexFaults + 1 ELSE indexFaults
  /\ ix' = [FailAttempt(ix, k, error) EXCEPT ![k].pc = "none", ![k].doc = NoDoc]
  /\ UNCHANGED <<credVars, crashes, inputVars, docs, acct, arrived, syncJobs, queue, dbVars, indexJobs,
                 wk, faults, apiVars>>

\* lines 21-33: getMessageById, storageService.getMessage, the attachments
IndexGetMessage(k) ==
  /\ k \in DOMAIN ix
  /\ ix[k].state = "active"
  /\ ix[k].pc = "getMessageById"
  /\ LET rows == {r \in messages : r.id = k[1]} IN
       IF rows = {}
         THEN IndexJobThrows(k, "not found")
       ELSE IF \E r \in rows : MessageKey(r.account, r.messageId) \notin blobs
         THEN IndexJobThrows(k, "storage")
       ELSE \E r \in rows :
              /\ ix' = [ix EXCEPT ![k].pc = "indexMessage",
                                  ![k].doc = [isRead |-> r.isRead,
                                              isStarred |-> r.isStarred]]
              /\ UNCHANGED <<credVars, crashes, inputVars, docs, indexFaults, acct, arrived, syncJobs, queue,
                             dbVars, indexJobs, wk, faults, apiVars>>

\* a client.index call without id: the search index makes up an _id of its
\* own for every document it is given
IndexDocument_AutoId(ds, messageUuid, doc) ==
  ds \cup {[id |-> <<"auto", Cardinality(ds) + 1>>, message |-> messageUuid, doc |-> doc]}

\* SearchService.indexMessage, lines 594-599: client.index with id
\* message_uuid puts the document in the place of the one with that _id
IndexDocument(ds, messageUuid, doc) ==
  {d \in ds : d.id # <<"uuid", messageUuid>>}
    \cup {[id |-> <<"uuid", messageUuid>>, message |-> messageUuid, doc |-> doc]}

\* lines 35-53: searchService.indexMessage, which the search index takes or
\* refuses
IndexMessage(k) ==
  /\ k \in DOMAIN ix
  /\ ix[k].state = "active"
  /\ ix[k].pc = "indexMessage"
  /\ \E reachable \in IF indexFaults < MaxIndexFaults THEN BOOLEAN ELSE {TRUE} :
       IF reachable
         THEN /\ docs' = IndexDocument(docs, k[1], ix[k].doc)
              /\ ix' = [ix EXCEPT ![k].pc = "return", ![k].doc = NoDoc]
              /\ UNCHANGED <<credVars, crashes, inputVars, indexFaults, acct, arrived, syncJobs,
                             queue, dbVars, indexJobs, wk, faults, apiVars>>
         ELSE IndexJobThrows(k, "search")

\* lines 55-60: the handler returns and Bull completes the job
IndexJobReturns(k) ==
  /\ k \in DOMAIN ix
  /\ ix[k].state = "active"
  /\ ix[k].pc = "return"
  /\ ix' = [ix EXCEPT ![k].state = "completed", ![k].pc = "none"]
  /\ UNCHANGED <<credVars, crashes, inputVars, docs, indexFaults, acct, arrived, syncJobs, queue, dbVars, indexJobs,
                 wk, faults, apiVars>>

\* the index worker process dies while it runs job k: Bull finds the job
\* stalled and hands it out again, without counting an attempt
IndexWorkerCrash(k) ==
  /\ crashes < MaxCrashes
  /\ k \in DOMAIN ix
  /\ ix[k].state = "active"
  /\ crashes' = crashes + 1
  /\ ix' = [ix EXCEPT ![k].state = "waiting", ![k].pc = "none", ![k].doc = NoDoc]
  /\ UNCHANGED <<credVars, inputVars, docs, indexFaults, acct, arrived, syncJobs, queue, dbVars, indexJobs,
                 wk, faults, apiVars>>

\* the backoff delay of a delayed index job runs out
PromoteDelayedIndexJob(k) ==
  /\ k \in DOMAIN ix
  /\ ix[k].state = "delayed"
  /\ ix' = [ix EXCEPT ![k].state = "waiting"]
  /\ UNCHANGED <<credVars, crashes, inputVars, docs, indexFaults, acct, arrived, syncJobs, queue, dbVars, indexJobs,
                 wk, faults, apiVars>>

IndexStep ==
  \/ \E k \in IndexJobKeys : TakeIndexJob(k)
  \/ \E k \in DOMAIN ix : IndexGetMessage(k)
  \/ \E k \in DOMAIN ix : IndexMessage(k)
  \/ \E k \in DOMAIN ix : IndexJobReturns(k)
  \/ \E k \in DOMAIN ix : PromoteDelayedIndexJob(k)

\* the first sync job of an account
AddFirstSyncJob(a) ==
  /\ queue = <<>>
  /\ AddSyncJob(a)

\* one sync job with the services it stands on available, the index worker,
\* and messages deleted under it
NextIndex ==
  \/ \E a \in Accounts : AddFirstSyncJob(a)
  \/ Progress
  \/ IndexStep
  \/ \E r \in messages : DeleteMessage(r.id)

SpecIndex == InitFair /\ [][NextIndex]_vars

----------------------------------------------------------------------------
(***************************************************************************)
(* Index jobs that come more than once for a message: two sync jobs whose  *)
(* runs can overlap, so that the store loop of one finds stored what the   *)
(* other has stored and adds an index job again, and an index worker that  *)
(* can die under a job, which Bull then hands out once more.  The services *)
(* are available, the search index too, so that no attempt of an index job *)
(* fails and none waits for a backoff to run out.                          *)
(***************************************************************************)
InitReindex ==
  /\ InitStores
  /\ arrived = [a \in Accounts |-> NumMsgs]
  /\ faults = MaxFaults
  /\ malformed = {}
  /\ subj = NoSubject
  /\ sched = NoSched
  /\ indexFaults = MaxIndexFaults

\* a sync job added beside at most one other
AddSyncJobBeside(a) ==
  /\ Len(queue) < 2
  /\ AddSyncJob(a)

NextReindex ==
  \/ \E a \in Accounts : AddSyncJobBeside(a)
  \/ Progress
  \/ \E k \in IndexJobKeys : TakeIndexJob(k)
  \/ \E k \in DOMAIN ix : IndexGetMessage(k)
  \/ \E k \in DOMAIN ix : IndexMessage(k)
  \/ \E k \in DOMAIN ix : IndexJobReturns(k)
  \/ \E k \in DOMAIN ix : IndexWorkerCrash(k)

SpecReindex == InitReindex /\ [][NextReindex]_vars

----------------------------------------------------------------------------
(***************************************************************************)
(* One sync job over a mailbox some of whose records cannot be read: the   *)
(* provider lists them, messages.get or the parser fails on them.          *)
(***************************************************************************)
InitBatch ==
  /\ InitStores
  /\ arrived = [a \in Accounts |-> NumMsgs]
  /\ faults = MaxFaults
  /\ malformed \in SUBSET Msgs
  /\ subj = NoSubject
  /\ sched = NoSched
  /\ indexFaults = 0

NextBatch ==
  \/ \E a \in Accounts : AddFirstSyncJob(a)
  \/ Progress

SpecBatch == InitBatch /\ [][NextBatch]_vars /\ WF_vars(Progress)

(***************************************************************************)
(* The same with a worker process that can die while it runs a job.  The   *)
(* run is gone with the process; nothing in the sources runs at start-up   *)
(* or on a timer to undo what the run had written.  Bull finds the job     *)
(* stalled, its lock not renewed, and moves it back to the waiting list    *)
(* without counting an attempt; the restarted worker takes it from there.  *)
(***************************************************************************)
Crash(w) ==
  /\ crashes < MaxCrashes
  /\ w \in DOMAIN queue
  /\ queue[w].state = "active"
  /\ wk[w].pc # "idle"
  /\ crashes' = crashes + 1
  /\ wk' = [wk EXCEPT ![w] = IdleW]
  /\ queue' = [queue EXCEPT ![w].state = "waiting"]
  /\ UNCHANGED <<credVars, indexVars, inputVars, acct, arrived, syncJobs, dbVars, indexJobs, faults,
                 apiVars>>

NextCrash ==
  \/ NextFair
  \/ \E w \in Jobs : Crash(w)

SpecCrash == InitFair /\ [][NextCrash]_vars /\ WF_vars(Progress)

(***************************************************************************)
(* MessageService.normalizeSubject, on strings as sequences of characters: *)
(*   subject.replace(/^(re|fwd|fw):\s*/gi, '').trim().toLowerCase()        *)
(*          .substring(0, 255)                                             *)
(* The subject lines tried are put together from reply and forward         *)
(* prefixes in several spellings, blanks and a letter.                     *)
(***************************************************************************)
SubjectParts == {<<"R", "e", ":">>, <<"f", "w", ":">>, <<"F", "W", "D", ":">>,
                 <<" ">>, <<"X">>}

RECURSIVE Concat(_)
Concat(parts) == IF parts = <<>> THEN <<>> ELSE Head(parts) \o Concat(Tail(parts))

Subjects ==
  {Concat(parts) : parts \in UNION {[1..n -> SubjectParts] : n \in 0..MaxSubjectParts}}

LowerChar(ch) ==
  CASE ch = "R" -> "r"
    [] ch = "E" -> "e"
    [] ch = "F" -> "f"
    [] ch = "W" -> "w"
    [] ch = "D" -> "d"
    [] ch = "X" -> "x"
    [] OTHER -> ch

\* String.prototype.toLowerCase
ToLowerCase(str) == [i \in 1..Len(str) |-> LowerChar(str[i])]

\* str, from its 0-based position n on
From(str, n) == SubSeq(str, n + 1, Len(str))

\* the i flag: str begins with word in some letter case
BeginsWith(str, word) ==
  /\ Len(str) >= Len(word)
  /\ ToLowerCase(SubSeq(str, 1, Len(word))) = word

\* (re|fwd|fw): at the beginning of str: the length of what the alternation
\* and the colon match, 0 for no match
MatchPrefix(str) ==
  IF BeginsWith(str, <<"r", "e", ":">>) THEN 3
  ELSE IF BeginsWith(str, <<"f", "w", "d", ":">>) THEN 4
  ELSE IF BeginsWith(str, <<"f", "w", ":">>) THEN 3
  ELSE 0

\* \s* : str without its leading blanks
RECURSIVE SkipBlanks(_)
SkipBlanks(str) ==
  IF str # <<>> /\ Head(str) = " " THEN SkipBlanks(Tail(str)) ELSE str

\* .replace(/^(re|fwd|fw):\s*/gi, ''): ^ matches at position 0 only (no m
\* flag), so the g flag finds no second match
ReplacePrefix(str) ==
  IF MatchPrefix(str) = 0 THEN str ELSE SkipBlanks(From(str, MatchPrefix(str)))

RECURSIVE DropTrailingBlanks(_)
DropTrailingBlanks(str) ==
  IF str # <<>> /\ str[Len(str)] = " "
    THEN DropTrailingBlanks(SubSeq(str, 1, Len(str) - 1))
    ELSE str

\* String.prototype.trim
Trim(str) == DropTrailingBlanks(SkipBlanks(str))

\* .substring(0, 255)
Substring(str) == SubSeq(str, 1, Min(SubjectMaxLength, Len(str)))

NormalizeSubject(subject) == Substring(ToLowerCase(Trim(ReplacePrefix(subject))))

\* the calls of the chain, one after the other
SubjectStages == <<"replace", "trim", "toLowerCase", "substring", "done">>

StageAfter(stage) ==
  SubjectStages[(CHOOSE i \in 1..Len(SubjectStages) : SubjectStages[i] = stage) + 1]

SubjectStep(stage, result) ==
  /\ subj.stage = stage
  /\ subj' = [subj EXCEPT !.value = result, !.stage = StageAfter(stage)]
  /\ UNCHANGED <<credVars, crashes, malformed, sched, flagsCall, adm, indexVars, acct, arrived, syncJobs, queue,
                 dbVars, indexJobs, wk, faults, apiVars>>

ReplaceStep == SubjectStep("replace", ReplacePrefix(subj.value))
TrimStep == SubjectStep("trim", Trim(subj.value))
ToLowerCaseStep == SubjectStep("toLowerCase", ToLowerCase(subj.value))
SubstringStep == SubjectStep("substring", Substring(subj.value))

InitSubject ==
  /\ InitStores
  /\ arrived = [a \in Accounts |-> 0]
  /\ faults = 0
  /\ malformed = {}
  /\ \E subject \in Subjects :
       subj = [input |-> subject, value |-> subject, stage |-> "replace"]
  /\ sched = NoSched
  /\ indexFaults = 0

NextSubject ==
  \/ ReplaceStep
  \/ TrimStep
  \/ ToLowerCaseStep
  \/ SubstringStep

SpecSubject == InitSubject /\ [][NextSubject]_vars

(***************************************************************************)
(* SpecSched: the periodic scheduler over an accounts table of several     *)
(* accounts.  The clock counts minutes; the timer fires the scheduler at   *)
(* start-up and once every minute.                                         *)
(***************************************************************************)
SchedAccounts == 1..NumSchedAccounts

\* WHERE status = 'active' AND (last_sync_at IS NULL
\*                              OR last_sync_at < NOW() - INTERVAL 'n minutes')
NeedsSync_AnyStatus(row, now, intervalMinutes) ==
  row.lastSyncAt = Never \/ row.lastSyncAt < now - intervalMinutes

NeedsSync(row, now, intervalMinutes) ==
  /\ row.status = "active"
  /\ (row.lastSyncAt = Never \/ row.lastSyncAt < now - intervalMinutes)

\* ORDER BY last_sync_at ASC NULLS FIRST: the orders the database may give
\* the accounts of S in (rows of equal last_sync_at come in any order)
OrderedByLastSync(table, S) ==
  {s \in [1..Cardinality(S) -> S] :
     /\ \A i, j \in DOMAIN s : i # j => s[i] # s[j]
     /\ \A i, j \in DOMAIN s : i < j => table[s[i]].lastSyncAt <= table[s[j]].lastSyncAt}

Limit(s, n) == SubSeq(s, 1, IF Len(s) < n THEN Len(s) ELSE n)

\* AccountService.getAccountsNeedingSync: the results the query may give
GetAccountsNeedingSync(table, now, intervalMinutes) ==
  {Limit(s, NeedingSyncLimit) :
     s \in OrderedByLastSync(table,
             {a \in DOMAIN table : NeedsSync(table[a], now, intervalMinutes)})}

SchedFrame ==
  UNCHANGED <<credVars, crashes, malformed, subj, flagsCall, adm, indexVars, acct, arrived,
              syncJobs, queue, dbVars, indexJobs, wk, faults, apiVars>>

\* schedulePeriodicSync: one syncQueue.add per account of the query's result
PeriodicSchedulerRun ==
  /\ sched.ranAt < sched.now
  /\ \E accounts \in GetAccountsNeedingSync(sched.table, sched.now, SyncIntervalMinutes) :
       sched' = [sched EXCEPT !.enqueued = accounts, !.ranAt = sched.now]
  /\ SchedFrame

\* setInterval(schedulePeriodicSync, 60 * 1000): a minute after a run the
\* timer fires again
Minute ==
  /\ sched.now < MaxClock
  /\ sched.ranAt = sched.now
  /\ sched' = [sched EXCEPT !.now = @ + 1]
  /\ SchedFrame

\* what a sync attempt does to the account's row: 'syncing' at its start,
\* then the cursor and 'active', or 'auth_failed'
SchedSetSyncing(a) ==
  /\ sched.table[a].status = "active"
  /\ sched' = [sched EXCEPT !.table[a].status = "syncing"]
  /\ SchedFrame

SchedSyncCompleted(a) ==
  /\ sched.table[a].status = "syncing"
  /\ sched' = [sched EXCEPT !.table[a] = [status |-> "active", lastSyncAt |-> sched.now]]
  /\ SchedFrame

SchedSyncFailed(a) ==
  /\ sched.table[a].status = "syncing"
  /\ sched' = [sched EXCEPT !.table[a].status = "auth_failed"]
  /\ SchedFrame

InitSched ==
  /\ InitStores
  /\ arrived = [a \in Accounts |-> 0]
  /\ faults = 0
  /\ malformed = {}
  /\ subj = NoSubject
  /\ indexFaults = 0
  /\ \E status \in [SchedAccounts -> {"active", "disabled"}] :
       sched = [table |-> [a \in SchedAccounts |->
                             [status |-> status[a], lastSyncAt |-> Never]],
                now |-> 0, ranAt |-> -1, enqueued |-> <<>>]

NextSched ==
  \/ PeriodicSchedulerRun
  \/ Minute
  \/ \E a \in SchedAccounts : SchedSetSyncing(a)
  \/ \E a \in SchedAccounts : SchedSyncCompleted(a)
  \/ \E a \in SchedAccounts : SchedSyncFailed(a)

SpecSched == InitSched /\ [][NextSched]_vars

(***************************************************************************)
(* SpecStore: MessageService under concurrent callers.                     *)
(***************************************************************************)
NextStore ==
  \/ \E c \in Jobs, a \in Accounts, m \in Msgs : StoreMessageCall(c, a, m)
  \/ \E c \in Jobs : StoreStep(c)
  \/ \E r \in messages, i \in FlagValues, s \in FlagValues : UpdateMessageFlags(r.id, i, s)
  \/ \E r \in messages : DeleteMessage(r.id)

SpecStore == Init /\ [][NextStore]_vars

(***************************************************************************)
(* SpecAttach: one caller of storeMessage on a mailbox long enough to hold *)
(* a message that carries an attachment; database and object store are up. *)
(***************************************************************************)
AttachMsgs == 1..NumAttachMsgs

NextAttach ==
  \/ \E a \in Accounts, m \in AttachMsgs : StoreMessageCall(1, a, m)
  \/ StoreStep(1)

SpecAttach == InitFair /\ [][NextAttach]_vars

(***************************************************************************)
(* SpecTenants: one caller of storeMessage storing the mail of two         *)
(* accounts, whose mailboxes hold messages under the same subjects and     *)
(* message ids.                                                            *)
(***************************************************************************)
Tenants == {"a1", "a2"}

NextTenants ==
  \/ \E a \in Tenants, m \in Msgs : StoreMessageCall(1, a, m)
  \/ StoreStep(1)

SpecTenants == InitFair /\ [][NextTenants]_vars

(***************************************************************************)
(* SpecAccounts: AccountService.createAccount and deleteAccount, one       *)
(* action per await.  adm.rows are the ids of the rows of table accounts,  *)
(* adm.secrets the ids whose path in the secret store holds credentials.   *)
(* The secret store and the database may fail while the fault budget lasts.*)
(***************************************************************************)
AdminFrame ==
  UNCHANGED <<credVars, crashes, malformed, subj, sched, flagsCall, indexVars, acct, arrived,
              syncJobs, queue, dbVars, indexJobs, wk, apiVars>>

\* createAccount is called; nanoid() gives an id no account has had
CreateAccountCall ==
  /\ adm.call.pc = "idle"
  /\ adm.created < MaxAccounts
  /\ adm' = [adm EXCEPT !.created = @ + 1,
                        !.call = [pc |-> "storeAccountCredentials", id |-> adm.created + 1]]
  /\ UNCHANGED faults
  /\ AdminFrame

\* line 35: vaultService.storeAccountCredentials; a throw ends the call
StoreAccountCredentials ==
  /\ adm.call.pc = "storeAccountCredentials"
  /\ \E ok \in Outcomes :
       /\ Faulted(ok)
       /\ adm' = IF ok
                   THEN [adm EXCEPT !.secrets = @ \cup {adm.call.id},
                                    !.call.pc = "insertAccount"]
                   ELSE [adm EXCEPT !.call = NoCall]
  /\ AdminFrame

\* lines 38-52: INSERT INTO accounts
InsertAccount ==
  /\ adm.call.pc = "insertAccount"
  /\ \E ok \in Outcomes :
       /\ Faulted(ok)
       /\ adm' = IF ok
                   THEN [adm EXCEPT !.rows = @ \cup {adm.call.id}, !.call = NoCall]
                   ELSE [adm EXCEPT !.call = NoCall]
  /\ AdminFrame

\* deleteAccount is called for an account that has a row
DeleteAccountCall(id) ==
  /\ adm.call.pc = "idle"
  /\ id \in adm.rows
  /\ adm' = [adm EXCEPT !.call = [pc |-> "deleteAccountCredentials", id |-> id]]
  /\ UNCHANGED faults
  /\ AdminFrame

\* line 185: vaultService.deleteAccountCredentials; a throw ends the call
DeleteAccountCredentials ==
  /\ adm.call.pc = "deleteAccountCredentials"
  /\ \E ok \in Outcomes :
       /\ Faulted(ok)
       /\ adm' = IF ok
                   THEN [adm EXCEPT !.secrets = @ \ {adm.call.id},
                                    !.call.pc = "deleteAccountRow"]
                   ELSE [adm EXCEPT !.call = NoCall]
  /\ AdminFrame

\* line 188: DELETE FROM accounts WHERE id = $1
DeleteAccountRow ==
  /\ adm.call.pc = "deleteAccountRow"
  /\ \E ok \in Outcomes :
       /\ Faulted(ok)
       /\ adm' = IF ok
                   THEN [adm EXCEPT !.rows = @ \ {adm.call.id}, !.call = NoCall]
                   ELSE [adm EXCEPT !.call = NoCall]
  /\ AdminFrame

NextAccounts ==
  \/ CreateAccountCall
  \/ StoreAccountCredentials
  \/ InsertAccount
  \/ \E id \in 1..MaxAccounts : DeleteAccountCall(id)
  \/ DeleteAccountCredentials
  \/ DeleteAccountRow

SpecAccounts == Init /\ [][NextAccounts]_vars

(***************************************************************************)
(* SpecFlags: updateMessageFlags on the rows that one caller of            *)
(* storeMessage has stored, also for an id that no row has.                *)
(***************************************************************************)
NextFlags ==
  \/ \E a \in Accounts, m \in Msgs : StoreMessageCall(1, a, m)
  \/ StoreStep(1)
  \/ \E id \in {r.id : r \in messages} \cup {NoId}, i \in FlagValues, s \in FlagValues :
       UpdateMessageFlagsCall(id, i, s)

SpecFlags == Init /\ [][NextFlags]_vars

----------------------------------------------------------------------------
(***************************************************************************)
(* Credentials.  The sync run (sync.service lines 38-44) and the send      *)
(* worker (send-worker.ts lines 30-38) read the account's credentials from *)
(* the vault and build a GmailAdapter on them.  The adapter's OAuth2       *)
(* client refreshes an expired access token on the next request and emits  *)
(* 'tokens'; the handler of gmail.adapter.ts lines 31-40 persists them     *)
(* with VaultService.updateOAuthTokens, a read of the credentials followed *)
(* by a write.  Access tokens are numbered in the order the provider       *)
(* issues them.                                                            *)
(***************************************************************************)
\* vaultService.getAccountCredentials + new GmailAdapter(accountId, credentials)
BuildAdapter(c, a) ==
  /\ cl[c].pc = "none"
  /\ cl' = [cl EXCEPT ![c] = [pc |-> "ready", account |-> a, token |-> vault[a],
                              tokens |-> 0]]
  /\ UNCHANGED <<pipelineVars, vault, issued, expiredUpTo, refreshes>>

\* time passes: every access token issued so far is past its expires_at
Expire(a) ==
  /\ expiredUpTo[a] < issued[a]
  /\ expiredUpTo' = [expiredUpTo EXCEPT ![a] = issued[a]]
  /\ UNCHANGED <<pipelineVars, vault, issued, refreshes, cl>>

\* a request of the adapter finds its access token expired: the client
\* obtains a new one from the provider and emits 'tokens'; the handler acts
\* only when the provider rotated the refresh token (line 32)
RefreshToken(c, rotated) ==
  /\ cl[c].pc = "ready"
  /\ cl[c].token <= expiredUpTo[cl[c].account]
  /\ issued[cl[c].account] < MaxTokens
  /\ issued' = [issued EXCEPT ![cl[c].account] = @ + 1]
  /\ refreshes' = [refreshes EXCEPT ![cl[c].account] = Append(@, cl[c].token)]
  /\ cl' = [cl EXCEPT ![c].token = issued[cl[c].account] + 1,
                      ![c].tokens = IF rotated THEN issued[cl[c].account] + 1 ELSE 0,
                      ![c].pc = IF rotated THEN "updateRead" ELSE "ready"]
  /\ UNCHANGED <<pipelineVars, vault, expiredUpTo>>

\* updateOAuthTokens line 137: the stored credentials are read
UpdateOAuthTokensRead(c) ==
  /\ cl[c].pc = "updateRead"
  /\ cl' = [cl EXCEPT ![c].pc = "updateWrite"]
  /\ UNCHANGED <<pipelineVars, vault, issued, expiredUpTo, refreshes>>

\* updateOAuthTokens lines 142-143: credentials.oauth = oauth, written back
UpdateOAuthTokensWrite(c) ==
  /\ cl[c].pc = "updateWrite"
  /\ vault' = [vault EXCEPT ![cl[c].account] = cl[c].tokens]
  /\ cl' = [cl EXCEPT ![c].pc = "ready", ![c].tokens = 0]
  /\ UNCHANGED <<pipelineVars, issued, expiredUpTo, refreshes>>

\* the run that built the adapter ends
DropAdapter(c) ==
  /\ cl[c].pc = "ready"
  /\ cl' = [cl EXCEPT ![c] = NoClient]
  /\ UNCHANGED <<pipelineVars, vault, issued, expiredUpTo, refreshes>>

NextCred ==
  \/ \E c \in Clients, a \in Accounts : BuildAdapter(c, a)
  \/ \E a \in Accounts : Expire(a)
  \/ \E c \in Clients, rotated \in BOOLEAN : RefreshToken(c, rotated)
  \/ \E c \in Clients : UpdateOAuthTokensRead(c)
  \/ \E c \in Clients : UpdateOAuthTokensWrite(c)
  \/ \E c \in Clients : DropAdapter(c)

SpecCred == Init /\ [][NextCred]_vars

----------------------------------------------------------------------------
(***************************************************************************)
(* Properties.                                                             *)
(***************************************************************************)
RunningSyncJobs(a) == {r \in syncJobs : r.account = a /\ r.status = "running"}

ThreadRows(t) == {r \in messages : r.threadId = t.id}

StoreQuiescent == \A c \in Jobs : wk[c].pc = "idle"

\* C1: no two Message rows share (account_id, provider_message_id), also when
\* storeMessage calls for the same message overlap.
C1_DedupInvariant ==
  \A r1, r2 \in messages :
    (r1.account = r2.account /\ r1.messageId = r2.messageId) => r1 = r2

\* C1 witness: a call that passed the dedup check after another one lost the
\* race on the insert, with the row of the winner in place.
C1_Witness ==
  /\ returned.err = "unique"
  /\ messages # {}

\* C2: at most one SyncJob per account is running at a time.
C2_Serialization == \A a \in Accounts : Cardinality(RunningSyncJobs(a)) <= 1

\* C3: once every storeMessage call has ended, after any sequence of
\* storeMessage, updateMessageFlags and deleteMessage, each thread's
\* message_count is the number of Message rows that reference the thread.
C3_ThreadCountInvariant ==
  StoreQuiescent => \A t \in threads : t.messageCount = Cardinality(ThreadRows(t))

\* C4: a storeMessage call that finds its (account, message id) stored is a
\* dedup hit: none of its steps creates a thread or changes a message_count.
C4_ThreadIdempotence ==
  [][\A c \in Jobs :
       (/\ wk'[c] # wk[c]
        /\ \/ wk[c].pc = "storeDedup" /\ UniqueViolation(AcctOf(c), CurMsg(c))
           \/ wk[c].pc # "idle" /\ wk[c].dup)
         => threads' = threads]_vars

\* C4 witness: a call has returned the stored row as a dedup hit.
C4_Witness ==
  /\ returned.dup
  /\ returned.row # NoId
  /\ threads # {}

\* C5: an expired access token is refreshed once, whoever finds it expired,
\* and the stored token is never replaced by an older one.
C5_CredentialRaceSafety ==
  [][\A a \in Accounts :
       /\ \A i, j \in DOMAIN refreshes'[a] :
            refreshes'[a][i] = refreshes'[a][j] => i = j
       /\ vault'[a] >= vault[a]]_vars

C7_TerminalStatesFinal ==
  [][\A r \in syncJobs :
       r.status \in {"completed", "failed"}
         => \E r2 \in syncJobs' : r2.id = r.id /\ r2.status = r.status]_vars

\* C8: an account is 'syncing' exactly when one SyncJob of it is running.
C8_SyncingIffRunning ==
  \A a \in Accounts :
    (acct[a].status = "syncing") <=> (Cardinality(RunningSyncJobs(a)) = 1)

\* C9: the attempt that follows a transient provider failure of a job, made
\* while no other job is at work, is not turned away: it runs the sync.
C9_TransientRetry ==
  [][\A j \in DOMAIN queue :
       (/\ queue[j].failedReason = "transient"
        /\ ActiveJobs = {j}
        /\ queue'[j].attemptsMade > queue[j].attemptsMade)
         => queue'[j].failedReason # "notactive"]_vars

\* C10: a job whose attempt failed on a terminal provider error is failed at
\* once, with the account at auth_failed: the queue schedules no retry.
C10_TerminalNotRetried ==
  \A j \in DOMAIN queue :
    queue[j].failedReason = "terminal"
      => queue[j].state = "failed" /\ acct[queue[j].account].status = "auth_failed"

\* C11: an attempt that fails on a failure that is not about credentials (a
\* transient provider error, a storage or database error) leaves the account
\* 'active', with the error in last_sync_error.
C11_FailureClassification ==
  [][\A j \in DOMAIN queue :
       (/\ queue'[j].attemptsMade > queue[j].attemptsMade
        /\ queue'[j].failedReason \in {"transient", "db"})
         => /\ acct'[queue[j].account].status = "active"
            /\ acct'[queue[j].account].lastSyncError = queue'[j].failedReason]_vars

\* C12: an account does not stay 'syncing' for ever, also when the worker
\* that set it has crashed: it always comes to be not 'syncing' again.
C12_CrashRecovery ==
  \A a \in Accounts : (acct[a].status = "syncing") ~> (acct[a].status # "syncing")

\* C13: once a sync job is completed, every stored message has an index job
\* carrying its id, enqueued or about to be enqueued by the run that has
\* just stored it.
C13_StoredMessagesQueued ==
  (\E j \in syncJobs : j.status = "completed")
    => \A r \in messages :
         \/ r.id \in DOMAIN indexJobs
         \/ \E w \in Jobs : wk[w].pc = "addIndexJob" /\ wk[w].row = r.id

\* C14: a step of the index worker, a failing attempt included, changes the
\* index queue and the search index only: no SyncJob, account, cursor,
\* message, thread, attachment or blob, no sync job enqueued or run, no index
\* job added.
C14_IndexFailureIsolation ==
  [][(ix' # ix \/ docs' # docs)
       => UNCHANGED <<acct, arrived, syncJobs, queue, wk, messages, threads,
                      attachments, blobs, indexJobs>>]_vars

\* the provider message ids stored for account a
StoredMessageIds(a) == {r.messageId : r \in {x \in messages : x.account = a}}

C14_Witness ==
  /\ \E k \in DOMAIN ix : ix[k].state = "failed" /\ ix[k].attemptsMade = Attempts
  /\ \E j \in DOMAIN queue :
       queue[j].state = "completed" /\ acct[queue[j].account].status = "active"

\* C16: when the object store or the database fails under storeMessage for a
\* fetched message, the run goes to the failure path of the sync job (the
\* job's attempt fails and the message is left for a later attempt).
C16_StorageErrorFailsJob ==
  [][\A w \in Jobs :
       (wk[w].pc = "storeMessage" /\ faults' = faults + 1)
         => wk'[w].pc = "failSyncJob"]_vars

\* C17: the step of a storeMessage call that finds its (account, message id)
\* stored ends the call: it returns a stored row with that key and leaves
\* the object store and the attachments, threads and messages tables as
\* they are.
C17_DedupHitNoOp ==
  [][\A c \in Jobs :
       (/\ wk[c].pc = "storeDedup"
        /\ wk'[c] # wk[c]
        /\ UniqueViolation(AcctOf(c), CurMsg(c)))
         => /\ UNCHANGED <<blobs, attachments, threads, messages>>
            /\ wk'[c].pc = "idle"
            /\ returned'.err = "none"
            /\ \E r \in messages : /\ r.id = returned'.row
                                    /\ r.account = AcctOf(c)
                                    /\ r.messageId = CurMsg(c)]_vars

\* C17 witness: a call has returned the row of a message stored before it,
\* the only row there is.
C17_Witness ==
  /\ returned.dup
  /\ returned.err = "none"
  /\ storeCalls >= 2
  /\ \E r \in messages : r.id = returned.row /\ messages = {r}

\* the stored messages that message m answers
StoredReplyTargets(m) == {r \in messages : InReplyTo(m) # Null /\ r.messageId = InReplyTo(m)}

SubjectPrefixes == {p \in SubjectParts : MatchPrefix(p) = Len(p)}

\* C19: what normalizeSubject gives for a subject line it gives for the line
\* with one more reply or forward prefix in front, and for its own result.
C19_NormalizeSubject ==
  subj.stage = "done"
    => /\ \A p \in SubjectPrefixes : NormalizeSubject(p \o subj.input) = subj.value
       /\ NormalizeSubject(subj.value) = subj.value

\* the threads that carry the subject of message m
ThreadsOfSubject(m) == {t \in threads : t.subject = SubjectOf(m)}

\* C20: a storeMessage call that looks for a thread by subject and finds
\* threads of its subject takes the one created last (thread ids grow in
\* the order of creation); when there is none it goes on to create one.
C20_SubjectThreading ==
  [][\A c \in Jobs :
       (wk[c].pc = "findThreadBySubject" /\ wk'[c] # wk[c])
         => IF ThreadsOfSubject(CurMsg(c)) # {}
              THEN /\ wk'[c].pc = "insertMessage"
                   /\ \A t \in ThreadsOfSubject(CurMsg(c)) : t.id <= wk'[c].thr
                   /\ \E t \in ThreadsOfSubject(CurMsg(c)) : t.id = wk'[c].thr
              ELSE wk'[c].pc = "createThread"]_vars

\* C21: an account whose last_sync_at is set has a sync job that is
\* completed: no sync job that ended failed has moved the cursor.
C21_CursorOnlyOnCompletion ==
  \A a \in Accounts :
    acct[a].lastSyncAt # Never
      => \E r \in syncJobs : r.account = a /\ r.status = "completed"

\* C22: with no storeMessage call under way and no message deleted, every
\* thread has a message row and every attachment row has its message row:
\* a call that failed has left no thread or attachment row of its own
\* behind, and a call that succeeded has left its row in its thread.
C22_StoreAtomicity ==
  (StoreQuiescent /\ deletes = 0)
    => /\ \A t \in threads : ThreadRows(t) # {}
       /\ \A x \in attachments : \E r \in messages : r.id = x.message

\* the index jobs of message row id that have been completed
CompletedIndexJobs(id) == {k \in DOMAIN ix : k[1] = id /\ ix[k].state = "completed"}

\* C23: a message row has at most one document in the search index, and
\* once an index job for it is completed it has exactly one, under the row
\* id, which is the document one index job writes for the row.
C23_IndexUpsert ==
  \A id \in DOMAIN indexJobs :
    LET ds == {d \in docs : d.message = id} IN
    /\ Cardinality(ds) <= 1
    /\ CompletedIndexJobs(id) # {}
         => /\ Cardinality(ds) = 1
            /\ \A d \in ds, r \in messages :
                  r.id = id => d.doc = [isRead |-> r.isRead, isStarred |-> r.isStarred]

\* C23 witness: two index jobs for one message are completed, the second
\* added at a dedup hit, the index worker has died under a job, and the
\* message has one document.
C23_Witness ==
  \E id \in DOMAIN indexJobs :
    /\ Cardinality(CompletedIndexJobs(id)) >= 2
    /\ crashes > 0
    /\ Cardinality({d \in docs : d.message = id}) = 1

\* C24: the step on which a run finds its account not active ends the run:
\* accounts, sync_jobs, messages, threads, attachments, blobs and the index
\* queue stay as they are, and the attempt fails with 'Account not active'.
C24_NotActiveDoesNotRun ==
  [][\A w \in Jobs :
       (/\ wk[w].pc = "getAccount"
        /\ wk'[w] # wk[w]
        /\ acct[AcctOf(w)].status # "active")
         => /\ UNCHANGED <<acct, syncJobs, messages, threads, attachments, blobs, indexJobs>>
            /\ wk'[w].pc = "idle"
            /\ queue'[w].attemptsMade = queue[w].attemptsMade + 1
            /\ queue'[w].failedReason = "notactive"
            /\ queue'[w].state \in {"delayed", "failed"}]_vars

\* C24 witness: a job has failed for good with 'Account not active' on an
\* account another run has left in 'syncing' or 'auth_failed'.
C24_Witness ==
  \E j \in DOMAIN queue :
    /\ queue[j].state = "failed"
    /\ queue[j].failedReason = "notactive"
    /\ acct[queue[j].account].status \in {"syncing", "auth_failed"}

\* C25: an adapter with no token update under way holds no access token
\* newer than the one kept in the secret store: what it has refreshed has
\* been persisted, and the next read of the credentials returns it.
C25_RefreshPersisted ==
  \A c \in Clients :
    cl[c].pc = "ready" => vault[cl[c].account] >= cl[c].token

\* C26: the step that ends an attempt leaves the account 'active' with
\* last_sync_error null when the attempt has succeeded, and with the
\* attempt's error in last_sync_error when it has failed.
C26_FailureSignals ==
  [][\A w \in DOMAIN queue :
       (wk[w].pc # "idle" /\ wk'[w].pc = "idle")
         => IF queue'[w].state = "completed"
              THEN /\ acct'[AcctOf(w)].status = "active"
                   /\ acct'[AcctOf(w)].lastSyncError = "null"
              ELSE acct'[AcctOf(w)].lastSyncError = queue'[w].failedReason]_vars

\* C27: each run of the periodic scheduler enqueues one sync job for exactly
\* the accounts whose status is 'active' and whose last_sync_at is null or
\* older than the configured interval, least recently synced first (never
\* synced before all); no other account is enqueued by it.
C27_Due(a) ==
  /\ sched.table[a].status = "active"
  /\ \/ sched.table[a].lastSyncAt = Never
     \/ sched.now - sched.table[a].lastSyncAt > SyncIntervalMinutes

C28_TestBeforeFetch ==
  [][\A w \in DOMAIN queue :
       wk'[w] # wk[w]
         => /\ wk[w].pc = "fetchMessages" => wk[w].connected = "true"
            /\ wk[w].connected = "false"
                 => /\ wk[w].pc # "fetchMessages"
                    /\ wk'[w].fetched = <<>>
                    /\ messages' = messages
                    /\ wk'[w].pc = "idle"
                         => /\ queue'[w].attemptsMade = queue[w].attemptsMade + 1
                            /\ queue'[w].state \in {"delayed", "failed"}]_vars

C28_Witness ==
  \E j, k \in DOMAIN queue :
    /\ queue[j].state = "failed" /\ queue[j].failedReason = "connect"
    /\ queue[k].state = "completed"
    /\ messages # {}

\* C29: at any time the number of sync jobs whose handler is being executed
\* by the sync worker is at most the configured concurrency, and a job is
\* taken only by a slot whose handler run has ended: the jobs in execution
\* are exactly the active jobs of the queue.
RunningHandlers == {w \in Jobs : wk[w].pc # "idle"}

C29_BoundedConcurrency ==
  /\ Cardinality(RunningHandlers) <= NarrowConcurrency
  /\ RunningHandlers = ActiveJobs

C29_Witness ==
  /\ Cardinality(RunningHandlers) = NarrowConcurrency
  /\ \E j, k \in DOMAIN queue :
       /\ queue[j].state = "waiting"
       /\ queue[k].state = "active" /\ queue[k].attemptsMade > 0

\* C30: a stored message row changes only in a call of updateMessageFlags,
\* and the call changes only the flags it was given, only of the row it
\* addresses; every other field of that row and every other row stay as they
\* were, and a call without a flag changes no table.
C30_Flagged(r, call) ==
  [r EXCEPT !.isRead = IF r.id = call.id /\ call.isRead # "undefined"
                         THEN call.isRead = "true" ELSE @,
            !.isStarred = IF r.id = call.id /\ call.isStarred # "undefined"
                            THEN call.isStarred = "true" ELSE @]

C30_OnlyFlagsMutate ==
  [][IF flagUpdates' # flagUpdates
       THEN /\ messages' = {C30_Flagged(r, flagsCall') : r \in messages}
            /\ (flagsCall'.isRead = "undefined" /\ flagsCall'.isStarred = "undefined")
                 => UNCHANGED <<messages, threads, attachments, blobs>>
       ELSE \A r \in messages, q \in messages' : q.id = r.id => q = r]_vars

C30_Witness ==
  /\ flagUpdates > 0
  /\ flagsCall.isRead = "undefined" /\ flagsCall.isStarred = "true"
  /\ \E r, q \in messages :
       /\ r.id = flagsCall.id /\ r.isStarred /\ ~r.isRead
       /\ q.id # r.id /\ ~q.isStarred

\* C31: whenever the account's last_sync_at stands at position P, every
\* message that reached the provider up to P is stored, so that the next
\* fetch, which starts after P, skips none.
C31_NoSkippedMessage ==
  \A a \in Accounts :
    acct[a].lastSyncAt # Never
      => \A m \in 1..acct[a].lastSyncAt : m \in StoredMessageIds(a)

\* C32: a storeMessage call for a message with attachments that is not
\* stored yet returns, and leaves the message row and one attachment row per
\* attachment; every attachment row references an existing message row.
C32_AttachmentIntegrity ==
  [][\A c \in Jobs :
       (/\ wk[c].pc # "idle" /\ wk'[c].pc = "idle"
        /\ NumAttachments(CurMsg(c)) >= 1
        /\ ~UniqueViolation(AcctOf(c), CurMsg(c)))
         => /\ returned'.err = "none"
            /\ \E r \in messages' :
                 /\ r.account = AcctOf(c) /\ r.messageId = CurMsg(c)
                 /\ Cardinality({x \in attachments' : x.message = r.id})
                      = NumAttachments(CurMsg(c))
            /\ \A x \in attachments' : \E r \in messages' : r.id = x.message]_vars

\* C33: once an account's status is 'auth_failed', no step of the sync
\* pipeline sets it to 'active' or 'syncing' and no sync attempt calls the
\* provider (testConnection, fetchMessages) for it.
C33_AuthFailedStaysHalted ==
  [][\A a \in Accounts :
       acct[a].status = "auth_failed"
         => /\ acct'[a].status = "auth_failed"
            /\ \A w \in DOMAIN queue :
                 (AcctOf(w) = a /\ wk[w].pc \in {"testConnection", "fetchMessages"})
                   => wk'[w] = wk[w]]_vars

\* C34: with the periodic scheduler as the only source of sync jobs, an
\* account never has more than one sync job waiting or active in the queue.
OutstandingJobs(a) ==
  {j \in DOMAIN queue : queue[j].account = a /\ queue[j].state \in {"waiting", "active"}}

C34_OneOutstandingJob ==
  \A a \in Accounts : Cardinality(OutstandingJobs(a)) <= 1

\* C35: at most one thread exists for a normalized subject, also when
\* storeMessage calls for messages of the same subject run side by side.
C35_ThreadUniquePerSubject ==
  \A t, u \in threads : t.subject = u.subject => t.id = u.id

\* C36: no thread holds messages of two accounts: storeMessage for one
\* account never attaches its message to a thread with a message of another.
C36_ThreadWithinAccount ==
  \A r, q \in messages : r.threadId = q.threadId => r.account = q.account

\* C37: whenever no createAccount or deleteAccount call is under way, also
\* after one that failed midway, every row of table accounts has credentials
\* in the secret store.
C37_AccountHasCredentials ==
  adm.call.pc = "idle" => adm.rows \subseteq adm.secrets

====
